---- MODULE Spec2Model ----
(***************************************************************************)
(* State-machine model of the scheduling engine of ProcessScheduler:       *)
(* fcfs, roundRobin, priority, sjf and srtf                                *)
(* (src/client/src/components/Navigation.tsx, lines 50-204).               *)
(* One invocation is modelled: Select and AddProcess build the caller's    *)
(* arguments, Invoke makes the call, a call action runs the code before    *)
(* the loop, one action runs one loop iteration, and Return leaves the     *)
(* loop. PairSpec adds a second invocation on the same list: InvokeSecond  *)
(* makes the call and Switch chooses which of the two takes the next step. *)
(* PageSpec is the Scheduler page (src/client/src/pages/Scheduler.tsx):    *)
(* its form, the validation of handleSubmit, the call onSubmit makes and   *)
(* the Gantt chart built from the returned list.                           *)
(***************************************************************************)
EXTENDS Integers, Sequences, FiniteSets, TLC

(* ---- bounds of the model ---- *)
MaxProcs == 2
MaxArrival == 2
MaxBurst == 3
MaxPriority == 1
MaxQuantum == 2
\* the loops of an invocation are cut after MaxSteps iterations; a valid
\* input needs at most one iteration per unit of burst plus one idle jump
\* per process
MaxSteps == MaxProcs * (MaxBurst + 1)
\* longest process list among the inputs that include invalid values
MaxInvalidProcs == 2

AlgorithmType == {"FCFS", "RR", "Priority", "SJF", "SRTF"}

VARIABLES
  algorithm,      \* which of the five functions is called ("none" before)
  processes,      \* the caller's process list (argument)
  quantum,        \* roundRobin's second argument (0: not passed)
  pc,             \* "idle", "input", "call", "loop", "done"
  sorted,         \* fcfs: the sorted copy iterated by forEach
  idx,            \* fcfs: number of elements forEach has visited
  queue,          \* roundRobin: the ready queue
  remaining,      \* sjf, srtf: the list of unfinished processes
  remainingTime,  \* roundRobin, srtf: Map id -> remaining burst
  currentTime,    \* the simulated clock
  results,        \* the result list being built
  iterations,     \* number of loop iterations executed so far
  other,          \* the frame of a second invocation while it is not running
  formQuantum     \* the Scheduler page's form value "quantum"

vars == <<algorithm, processes, quantum, pc, sorted, idx, queue, remaining,
          remainingTime, currentTime, results, iterations, other>>

(* ---- helpers: Math.max, Math.min ---- *)
MaxIgnoresClock(a, b) == b

Max(a, b) == IF a >= b THEN a ELSE b
Min(a, b) == IF a <= b THEN a ELSE b

MinOfZero(xs) == 0

MinOfLast(xs) == xs[Len(xs)]

\* Math.min(...xs) of a non-empty list of numbers
RECURSIVE MinOf(_)
MinOf(xs) ==
  IF Len(xs) = 1 THEN xs[1] ELSE Min(xs[1], MinOf(Tail(xs)))

(* ---- Array.prototype.sort with a comparator (stable) ---- *)
\* the comparator of fcfs and roundRobin
CompareArrival(a, b) == a.arrivalTime - b.arrivalTime

\* the comparator of priority
ComparePriority(a, b) ==
  IF a.priority = b.priority THEN a.arrivalTime - b.arrivalTime
  ELSE a.priority - b.priority

SortUnsorted(list, cmp) == list

\* Array.prototype.sort, given the comparator's value cmp[j][i] for every
\* pair of positions. The sort is stable: an element is preceded by the
\* elements that compare smaller and by the earlier elements that compare
\* equal.
Sort(list, cmp) ==
  LET n == Len(list)
      Before(j, i) == cmp[j][i] < 0 \/ (cmp[j][i] = 0 /\ j < i)
      rank(i) == Cardinality({j \in 1..n : Before(j, i)}) + 1
  IN [k \in 1..n |-> list[CHOOSE i \in 1..n : rank(i) = k]]

\* [...processes].sort((a, b) => a.arrivalTime - b.arrivalTime)
SortByArrival(list) ==
  Sort(list, [j \in 1..Len(list) |->
                [i \in 1..Len(list) |-> CompareArrival(list[j], list[i])]])

\* [...processes].sort((a, b) => a.priority === b.priority ? ... : ...)
SortByPriority(list) ==
  Sort(list, [j \in 1..Len(list) |->
                [i \in 1..Len(list) |-> ComparePriority(list[j], list[i])]])

(* ---- the ProcessResult pushed for a slice ---- *)
ProcessResultWaitsFromZero(process, startTime, endTime) ==
  [process |-> process,
   startTime |-> startTime,
   endTime |-> endTime,
   waitingTime |-> startTime,
   turnaroundTime |-> endTime - process.arrivalTime]

ProcessResult(process, startTime, endTime) ==
  [process |-> process,
   startTime |-> startTime,
   endTime |-> endTime,
   waitingTime |-> startTime - process.arrivalTime,
   turnaroundTime |-> endTime - process.arrivalTime]

\* new Map(list.map(p => [p.id, p.burstTime]))
BurstMap(list) ==
  [i \in {list[k].id : k \in 1..Len(list)} |->
     LET k == CHOOSE k \in 1..Len(list) :
                list[k].id = i /\ \A l \in (k+1)..Len(list) : list[l].id # i
     IN list[k].burstTime]

\* remaining.filter(p => p.arrivalTime <= currentTime)
Available(list, time) ==
  LET Arrived(p) == p.arrivalTime <= time IN SelectSeq(list, Arrived)

RemoveIdKeepsAll(list, id) == list

RemoveIdKeepsOnly(list, id) ==
  LET Same(p) == p.id = id IN SelectSeq(list, Same)

\* remaining.filter(p => p.id !== next.id)
RemoveId(list, id) ==
  LET Other(p) == p.id # id IN SelectSeq(list, Other)

\* remaining.map(p => p.arrivalTime)
ArrivalTimes(list) == [k \in 1..Len(list) |-> list[k].arrivalTime]

RECURSIVE ReduceShortestOrEqual(_, _)
ReduceShortestOrEqual(min, list) ==
  IF list = <<>> THEN min
  ELSE ReduceShortestOrEqual(IF list[1].burstTime <= min.burstTime THEN list[1] ELSE min,
                             Tail(list))

\* available.reduce((min, p) => p.burstTime < min.burstTime ? p : min)
RECURSIVE ReduceShortest(_, _)
ReduceShortest(min, list) ==
  IF list = <<>> THEN min
  ELSE ReduceShortest(IF list[1].burstTime < min.burstTime THEN list[1] ELSE min,
                      Tail(list))

ShortestJobOrEqual(available) == ReduceShortestOrEqual(available[1], Tail(available))

ShortestJob(available) == ReduceShortest(available[1], Tail(available))

RECURSIVE ReduceShortestRemainingOrEqual(_, _, _)
ReduceShortestRemainingOrEqual(min, list, rt) ==
  IF list = <<>> THEN min
  ELSE ReduceShortestRemainingOrEqual(
         IF rt[list[1].id] <= rt[min.id] THEN list[1] ELSE min, Tail(list), rt)

ReduceKeepsFirst(min, list, rt) == min

\* available.reduce((min, p) => remainingTime.get(p.id)! <
\*                              remainingTime.get(min.id)! ? p : min)
RECURSIVE ReduceShortestRemaining(_, _, _)
ReduceShortestRemaining(min, list, rt) ==
  IF list = <<>> THEN min
  ELSE ReduceShortestRemaining(IF rt[list[1].id] < rt[min.id] THEN list[1] ELSE min,
                               Tail(list), rt)

ShortestRemaining(available, rt) ==
  ReduceShortestRemaining(available[1], Tail(available), rt)

(* ---- the inputs ---- *)
\* a process as onSubmit passes it: the form's fields and id = index + 1
\* (Scheduler.tsx line 102)
NewProcess(list, arrivalTime, burstTime, priority) ==
  [id |-> Len(list) + 1, arrivalTime |-> arrivalTime, burstTime |-> burstTime,
   priority |-> priority]

\* the locals of an invocation before its first statement
Entry ==
  /\ sorted = <<>>
  /\ idx = 0
  /\ queue = <<>>
  /\ remaining = <<>>
  /\ remainingTime = <<>>
  /\ currentTime = 0
  /\ results = <<>>
  /\ iterations = 0

\* what belongs to one invocation: the function called, its quantum
\* argument, its position and its locals (declared inside the function body,
\* lines 61-63, 87-90, 129-131, 164-167)
Frame ==
  [algorithm |-> algorithm, quantum |-> quantum, pc |-> pc, sorted |-> sorted,
   idx |-> idx, queue |-> queue, remaining |-> remaining,
   remainingTime |-> remainingTime, currentTime |-> currentTime,
   results |-> results, iterations |-> iterations]

\* there is no second invocation
NoFrame ==
  [algorithm |-> "none", quantum |-> 0, pc |-> "none", sorted |-> <<>>,
   idx |-> 0, queue |-> <<>>, remaining |-> <<>>, remainingTime |-> <<>>,
   currentTime |-> 0, results |-> <<>>, iterations |-> 0]

(* ---- the form value "quantum" of the Scheduler page ---- *)
\* defaultValues of useForm
DefaultQuantum == 2
\* the bound of z.number().min(1)
MinQuantum == 1
\* the right operand of data.quantum || 2
FallbackQuantum == 2

\* a form value is a number, NaN (parseInt of a text that starts with no
\* digit) or undefined (the field is absent)
NumberValue(n) == [type |-> "number", value |-> n]
NaN == [type |-> "NaN", value |-> 0]
Undefined == [type |-> "undefined", value |-> 0]

\* what the form can hold: the schema types it number | undefined, and the
\* input's onChange stores parseInt(e.target.value)
FormQuantumValues ==
  {Undefined, NaN} \cup {NumberValue(n) : n \in (-1)..MaxQuantum}

\* as SchemaAccepts, without .min(1)
SchemaAcceptsAnyNumber(v) ==
  \/ v.type = "undefined"
  \/ v.type = "number"

\* quantum: z.number().min(1).optional(); z.number() rejects NaN
SchemaAccepts(v) ==
  \/ v.type = "undefined"
  \/ v.type = "number" /\ v.value >= MinQuantum

\* data.quantum || 2: undefined, NaN and 0 are falsy
QuantumArgument(v) ==
  IF v.type = "number" /\ v.value # 0 THEN v.value ELSE FallbackQuantum

\* no function of the engine has been called yet; the form holds its
\* default values
Init ==
  /\ pc = "idle"
  /\ algorithm = "none"
  /\ processes = <<>>
  /\ quantum = 0
  /\ Entry
  /\ other = NoFrame
  /\ formQuantum = NumberValue(DefaultQuantum)

\* the caller picks one of the five functions, and a quantum for roundRobin
Select ==
  /\ pc = "idle"
  /\ algorithm' \in AlgorithmType
  /\ quantum' \in (IF algorithm' = "RR" THEN 1..MaxQuantum ELSE {0})
  /\ pc' = "input"
  /\ UNCHANGED <<processes, sorted, idx, queue, remaining, remainingTime,
                 currentTime, results, iterations, other, formQuantum>>

\* the caller adds a valid process to the list it will pass; priority is read
\* by priority() only
AddProcess ==
  /\ pc = "input"
  /\ Len(processes) < MaxProcs
  /\ \E a \in 0..MaxArrival, b \in 1..MaxBurst,
        p \in (IF algorithm = "Priority" THEN 0..MaxPriority ELSE {0}) :
       processes' = Append(processes, NewProcess(processes, a, b, p))
  /\ UNCHANGED <<algorithm, quantum, pc, sorted, idx, queue, remaining,
                 remainingTime, currentTime, results, iterations, other,
                 formQuantum>>

\* as Select, with the quantum values roundRobin's signature admits
SelectAny ==
  /\ pc = "idle"
  /\ algorithm' \in AlgorithmType
  /\ quantum' \in (IF algorithm' = "RR" THEN (-1)..MaxQuantum ELSE {0})
  /\ pc' = "input"
  /\ UNCHANGED <<processes, sorted, idx, queue, remaining, remainingTime,
                 currentTime, results, iterations, other, formQuantum>>

\* as AddProcess, with negative arrival times and zero burst times
AddProcessAny ==
  /\ pc = "input"
  /\ Len(processes) < MaxInvalidProcs
  /\ \E a \in (-1)..MaxArrival, b \in 0..MaxBurst :
       processes' = Append(processes, NewProcess(processes, a, b, 0))
  /\ UNCHANGED <<algorithm, quantum, pc, sorted, idx, queue, remaining,
                 remainingTime, currentTime, results, iterations, other,
                 formQuantum>>

\* the calls of the documented examples: srtf on a long process preempted by
\* a short one, roundRobin on one process of three quanta, sjf on one
\* process that arrives late
Examples ==
  { [algorithm |-> "SRTF", quantum |-> 0,
     processes |-> << [id |-> 1, arrivalTime |-> 0, burstTime |-> 4, priority |-> 0],
                      [id |-> 2, arrivalTime |-> 1, burstTime |-> 1, priority |-> 0] >>],
    [algorithm |-> "RR", quantum |-> 2,
     processes |-> << [id |-> 1, arrivalTime |-> 0, burstTime |-> 5, priority |-> 0] >>],
    [algorithm |-> "SJF", quantum |-> 0,
     processes |-> << [id |-> 1, arrivalTime |-> 5, burstTime |-> 2, priority |-> 0] >>] }

\* the caller makes one of the example calls
InvokeExample ==
  /\ pc = "idle"
  /\ \E e \in Examples :
       /\ algorithm' = e.algorithm
       /\ quantum' = e.quantum
       /\ processes' = e.processes
  /\ pc' = "call"
  /\ UNCHANGED <<sorted, idx, queue, remaining, remainingTime, currentTime,
                 results, iterations, other, formQuantum>>

\* the caller calls the function on the list
Invoke ==
  /\ pc = "input"
  /\ pc' = "call"
  /\ UNCHANGED <<algorithm, processes, quantum, sorted, idx, queue, remaining,
                 remainingTime, currentTime, results, iterations, other,
                 formQuantum>>

\* the condition under which the loop of the running function goes on:
\* forEach has elements left (line 65), queue.length > 0 (line 92),
\* remaining.length > 0 (lines 133, 169)
LoopConditionOrEqual ==
  CASE algorithm \in {"FCFS", "Priority"} -> idx <= Len(sorted)
    [] algorithm = "RR" -> Len(queue) >= 0
    [] algorithm \in {"SJF", "SRTF"} -> Len(remaining) >= 0

LoopCondition ==
  CASE algorithm \in {"FCFS", "Priority"} -> idx < Len(sorted)
    [] algorithm = "RR" -> Len(queue) > 0
    [] algorithm \in {"SJF", "SRTF"} -> Len(remaining) > 0

(* ---- fcfs, lines 60-84 ---- *)
\* fcfs sorting the caller's array itself instead of a copy
FcfsCallSortsInPlace ==
  /\ pc = "call"
  /\ algorithm = "FCFS"
  /\ processes' = SortByArrival(processes)
  /\ sorted' = processes'
  /\ pc' = "loop"
  /\ UNCHANGED <<algorithm, quantum, idx, queue, remaining, remainingTime,
                 currentTime, results, iterations, other, formQuantum>>

FcfsCall ==
  /\ pc = "call"
  /\ algorithm = "FCFS"
  /\ sorted' = SortByArrival(processes)
  /\ pc' = "loop"
  /\ UNCHANGED <<algorithm, processes, quantum, idx, queue, remaining,
                 remainingTime, currentTime, results, iterations, other,
                 formQuantum>>

\* priority with an fcfs that iterates the list in the order it is given
PriorityCallKeepsPriorityOrder ==
  /\ pc = "call"
  /\ algorithm = "Priority"
  /\ sorted' = SortByPriority(processes)
  /\ pc' = "loop"
  /\ UNCHANGED <<algorithm, processes, quantum, idx, queue, remaining,
                 remainingTime, currentTime, results, iterations, other,
                 formQuantum>>

\* priority, lines 121-126: sorts by priority and passes the list to fcfs,
\* which sorts it again by arrival time
PriorityCall ==
  /\ pc = "call"
  /\ algorithm = "Priority"
  /\ \E byPriority \in {SortByPriority(processes)} :
       sorted' = SortByArrival(byPriority)
  /\ pc' = "loop"
  /\ UNCHANGED <<algorithm, processes, quantum, idx, queue, remaining,
                 remainingTime, currentTime, results, iterations, other,
                 formQuantum>>

\* one call of the forEach callback, lines 65-81
FcfsStep ==
  /\ pc = "loop"
  /\ algorithm \in {"FCFS", "Priority"}
  /\ LoopCondition
  /\ iterations < MaxSteps
  /\ LET process == sorted[idx + 1]
         startTime == Max(currentTime, process.arrivalTime)
         endTime == startTime + process.burstTime
     IN /\ results' = Append(results, ProcessResult(process, startTime, endTime))
        /\ currentTime' = endTime
  /\ idx' = idx + 1
  /\ iterations' = iterations + 1
  /\ UNCHANGED <<algorithm, processes, quantum, pc, sorted, queue, remaining,
                 remainingTime, other, formQuantum>>

(* ---- roundRobin, lines 86-119 ---- *)
ExecuteTimeWholeQuantum(q, rem) == q

ExecuteTimeOne(q, rem) == 1

\* const executeTime = Math.min(quantum, remaining)
ExecuteTime(q, rem) == Min(q, rem)

\* roundRobin starting its clock at the first arrival instead of 0
RoundRobinCallWaitsForFirstArrival ==
  /\ pc = "call"
  /\ algorithm = "RR"
  /\ queue' = SortByArrival(processes)
  /\ remainingTime' = BurstMap(queue')
  /\ currentTime' = IF queue' = <<>> THEN 0 ELSE queue'[1].arrivalTime
  /\ pc' = "loop"
  /\ UNCHANGED <<algorithm, processes, quantum, sorted, idx, remaining,
                 results, iterations, other, formQuantum>>

RoundRobinCall ==
  /\ pc = "call"
  /\ algorithm = "RR"
  /\ queue' = SortByArrival(processes)
  /\ remainingTime' = BurstMap(queue')
  /\ pc' = "loop"
  /\ UNCHANGED <<algorithm, processes, quantum, sorted, idx, remaining,
                 currentTime, results, iterations, other, formQuantum>>

\* roundRobin pushing the process back even when it has finished
RoundRobinStepAlwaysRequeues ==
  /\ pc = "loop"
  /\ algorithm = "RR"
  /\ LoopCondition
  /\ iterations < MaxSteps
  /\ LET process == Head(queue)
         rem == remainingTime[process.id]
         executeTime == ExecuteTime(quantum, rem)
         startTime == currentTime
         endTime == startTime + executeTime
     IN IF rem > 0
        THEN /\ results' = Append(results, ProcessResult(process, startTime, endTime))
             /\ remainingTime' = [remainingTime EXCEPT ![process.id] = rem - executeTime]
             /\ currentTime' = endTime
             /\ queue' = Append(Tail(queue), process)
        ELSE /\ queue' = Tail(queue)
             /\ UNCHANGED <<results, remainingTime, currentTime>>
  /\ iterations' = iterations + 1
  /\ UNCHANGED <<algorithm, processes, quantum, pc, sorted, idx, remaining,
                 other, formQuantum>>

\* roundRobin putting an unfinished process back at the head of the queue
RoundRobinStepRequeuesAtHead ==
  /\ pc = "loop"
  /\ algorithm = "RR"
  /\ LoopCondition
  /\ iterations < MaxSteps
  /\ LET process == Head(queue)
         rem == remainingTime[process.id]
         executeTime == ExecuteTime(quantum, rem)
         startTime == currentTime
         endTime == startTime + executeTime
     IN IF rem > 0
        THEN /\ results' = Append(results, ProcessResult(process, startTime, endTime))
             /\ remainingTime' = [remainingTime EXCEPT ![process.id] = rem - executeTime]
             /\ currentTime' = endTime
             /\ queue' = IF rem - executeTime > 0
                         THEN <<process>> \o Tail(queue)
                         ELSE Tail(queue)
        ELSE /\ queue' = Tail(queue)
             /\ UNCHANGED <<results, remainingTime, currentTime>>
  /\ iterations' = iterations + 1
  /\ UNCHANGED <<algorithm, processes, quantum, pc, sorted, idx, remaining,
                 other, formQuantum>>

\* one iteration of the while loop, lines 92-116
RoundRobinStep ==
  /\ pc = "loop"
  /\ algorithm = "RR"
  /\ LoopCondition
  /\ iterations < MaxSteps
  /\ LET process == Head(queue)
         rem == remainingTime[process.id]
         executeTime == ExecuteTime(quantum, rem)
         startTime == currentTime
         endTime == startTime + executeTime
     IN IF rem > 0
        THEN /\ results' = Append(results, ProcessResult(process, startTime, endTime))
             /\ remainingTime' = [remainingTime EXCEPT ![process.id] = rem - executeTime]
             /\ currentTime' = endTime
             /\ queue' = IF rem - executeTime > 0
                         THEN Append(Tail(queue), process)
                         ELSE Tail(queue)
        ELSE /\ queue' = Tail(queue)
             /\ UNCHANGED <<results, remainingTime, currentTime>>
  /\ iterations' = iterations + 1
  /\ UNCHANGED <<algorithm, processes, quantum, pc, sorted, idx, remaining,
                 other, formQuantum>>

(* ---- sjf, lines 128-161 ---- *)
SjfCall ==
  /\ pc = "call"
  /\ algorithm = "SJF"
  /\ remaining' = processes
  /\ pc' = "loop"
  /\ UNCHANGED <<algorithm, processes, quantum, sorted, idx, queue,
                 remainingTime, currentTime, results, iterations, other,
                 formQuantum>>

\* one iteration of the while loop, lines 133-158
SjfStep ==
  /\ pc = "loop"
  /\ algorithm = "SJF"
  /\ LoopCondition
  /\ iterations < MaxSteps
  /\ LET available == Available(remaining, currentTime)
     IN IF Len(available) = 0
        THEN /\ currentTime' = MinOf(ArrivalTimes(remaining))
             /\ UNCHANGED <<results, remaining>>
        ELSE LET next == ShortestJob(available)
                 startTime == currentTime
                 endTime == startTime + next.burstTime
             IN /\ results' = Append(results, ProcessResult(next, startTime, endTime))
                /\ currentTime' = endTime
                /\ remaining' = RemoveId(remaining, next.id)
  /\ iterations' = iterations + 1
  /\ UNCHANGED <<algorithm, processes, quantum, pc, sorted, idx, queue,
                 remainingTime, other, formQuantum>>

(* ---- srtf, lines 163-204 ---- *)
SrtfCall ==
  /\ pc = "call"
  /\ algorithm = "SRTF"
  /\ remainingTime' = BurstMap(processes)
  /\ remaining' = processes
  /\ pc' = "loop"
  /\ UNCHANGED <<algorithm, processes, quantum, sorted, idx, queue,
                 currentTime, results, iterations, other, formQuantum>>

\* srtf giving the selected process its whole remaining time in one slice
SrtfStepRunsToCompletion ==
  /\ pc = "loop"
  /\ algorithm = "SRTF"
  /\ LoopCondition
  /\ iterations < MaxSteps
  /\ LET available == Available(remaining, currentTime)
     IN IF Len(available) = 0
        THEN /\ currentTime' = MinOf(ArrivalTimes(remaining))
             /\ UNCHANGED <<results, remaining, remainingTime>>
        ELSE LET next == ShortestRemaining(available, remainingTime)
                 startTime == currentTime
                 endTime == startTime + remainingTime[next.id]
             IN /\ results' = Append(results, ProcessResult(next, startTime, endTime))
                /\ remainingTime' = [remainingTime EXCEPT ![next.id] = 0]
                /\ remaining' = RemoveId(remaining, next.id)
                /\ currentTime' = endTime
  /\ iterations' = iterations + 1
  /\ UNCHANGED <<algorithm, processes, quantum, pc, sorted, idx, queue, other,
                 formQuantum>>

\* one iteration of the while loop, lines 169-201
SrtfStep ==
  /\ pc = "loop"
  /\ algorithm = "SRTF"
  /\ LoopCondition
  /\ iterations < MaxSteps
  /\ LET available == Available(remaining, currentTime)
     IN IF Len(available) = 0
        THEN /\ currentTime' = MinOf(ArrivalTimes(remaining))
             /\ UNCHANGED <<results, remaining, remainingTime>>
        ELSE LET next == ShortestRemaining(available, remainingTime)
                 startTime == currentTime
                 executeTime == 1
                 endTime == startTime + executeTime
                 remaining_time == remainingTime[next.id] - executeTime
             IN /\ results' = Append(results, ProcessResult(next, startTime, endTime))
                /\ remainingTime' = [remainingTime EXCEPT ![next.id] = remaining_time]
                /\ remaining' = IF remaining_time = 0
                                THEN RemoveId(remaining, next.id)
                                ELSE remaining
                /\ currentTime' = endTime
  /\ iterations' = iterations + 1
  /\ UNCHANGED <<algorithm, processes, quantum, pc, sorted, idx, queue, other,
                 formQuantum>>

(* ---- leaving the loop and returning results ---- *)
Return ==
  /\ pc = "loop"
  /\ ~LoopCondition
  /\ pc' = "done"
  /\ UNCHANGED <<algorithm, processes, quantum, sorted, idx, queue, remaining,
                 remainingTime, currentTime, results, iterations, other,
                 formQuantum>>

(* ---- two invocations on the same list, their steps interleaved ---- *)
\* longest list two invocations are run on together
MaxSharedProcs == MaxProcs - 1

\* while the call just made has not taken a step, the caller calls a function
\* on the same list a second time; the first invocation is set aside
InvokeSecond ==
  /\ pc = "call"
  /\ other.pc = "none"
  /\ Len(processes) <= MaxSharedProcs
  /\ other' = Frame
  /\ algorithm' \in AlgorithmType
  /\ quantum' \in (IF algorithm' = "RR" THEN 1..MaxQuantum ELSE {0})
  /\ pc' = "call"
  /\ UNCHANGED <<processes, sorted, idx, queue, remaining, remainingTime,
                 currentTime, results, iterations, formQuantum>>

\* as Switch, with one remaining-time map that both invocations use
SwitchSharesRemainingTime ==
  /\ other.pc # "none"
  /\ other' = Frame
  /\ algorithm' = other.algorithm
  /\ quantum' = other.quantum
  /\ pc' = other.pc
  /\ sorted' = other.sorted
  /\ idx' = other.idx
  /\ queue' = other.queue
  /\ remaining' = other.remaining
  /\ currentTime' = other.currentTime
  /\ results' = other.results
  /\ iterations' = other.iterations
  /\ UNCHANGED <<processes, remainingTime, formQuantum>>

\* the running invocation is set aside between two of its steps and the
\* other one goes on; each has its own locals, the list is the same
Switch ==
  /\ other.pc # "none"
  /\ other' = Frame
  /\ algorithm' = other.algorithm
  /\ quantum' = other.quantum
  /\ pc' = other.pc
  /\ sorted' = other.sorted
  /\ idx' = other.idx
  /\ queue' = other.queue
  /\ remaining' = other.remaining
  /\ remainingTime' = other.remainingTime
  /\ currentTime' = other.currentTime
  /\ results' = other.results
  /\ iterations' = other.iterations
  /\ UNCHANGED <<processes, formQuantum>>

Next ==
  \/ Select
  \/ AddProcess
  \/ Invoke
  \/ InvokeExample
  \/ FcfsCall
  \/ PriorityCall
  \/ FcfsStep
  \/ RoundRobinCall
  \/ RoundRobinStep
  \/ SjfCall
  \/ SjfStep
  \/ SrtfCall
  \/ SrtfStep
  \/ Return

Spec == Init /\ [][Next]_vars

\* the same engine called on any input, invalid ones included
NextAny ==
  \/ SelectAny
  \/ AddProcessAny
  \/ Invoke
  \/ FcfsCall
  \/ PriorityCall
  \/ FcfsStep
  \/ RoundRobinCall
  \/ RoundRobinStep
  \/ SjfCall
  \/ SjfStep
  \/ SrtfCall
  \/ SrtfStep
  \/ Return

SpecAny == Init /\ [][NextAny]_vars

\* a call is synchronous: once made it keeps taking steps until it returns
FairSpec == Spec /\ WF_vars(Next)

\* a second call on the same list, the steps of the two in any order
PairNext ==
  \/ Next
  \/ InvokeSecond
  \/ Switch

PairSpec == Init /\ [][PairNext]_vars

(* ---- the Scheduler page: its form, handleSubmit and onSubmit ---- *)
\* the user picks an algorithm in the form's select
SelectAlgorithm ==
  /\ pc = "idle"
  /\ algorithm' \in AlgorithmType
  /\ pc' = "input"
  /\ UNCHANGED <<processes, quantum, sorted, idx, queue, remaining,
                 remainingTime, currentTime, results, iterations, other,
                 formQuantum>>

\* the quantum field, rendered while the algorithm is "RR", gets a new value
ChangeQuantum ==
  /\ pc = "input"
  /\ algorithm = "RR"
  /\ formQuantum' \in FormQuantumValues
  /\ UNCHANGED <<algorithm, processes, quantum, pc, sorted, idx, queue,
                 remaining, remainingTime, currentTime, results, iterations,
                 other>>

\* handleSubmit validates the form values against processesFormSchema and
\* calls onSubmit only when they pass; onSubmit calls the function of the
\* selected algorithm, roundRobin with data.quantum || 2
Submit ==
  /\ pc = "input"
  /\ Len(processes) >= 1
  /\ SchemaAccepts(formQuantum)
  /\ quantum' = (IF algorithm = "RR" THEN QuantumArgument(formQuantum) ELSE 0)
  /\ pc' = "call"
  /\ UNCHANGED <<algorithm, processes, sorted, idx, queue, remaining,
                 remainingTime, currentTime, results, iterations, other,
                 formQuantum>>

PageNext ==
  \/ SelectAlgorithm
  \/ AddProcessAny
  \/ ChangeQuantum
  \/ Submit
  \/ FcfsCall
  \/ PriorityCall
  \/ FcfsStep
  \/ RoundRobinCall
  \/ RoundRobinStep
  \/ SjfCall
  \/ SjfStep
  \/ SrtfCall
  \/ SrtfStep
  \/ Return

PageSpec == Init /\ [][PageNext]_vars

\* Math.max(...xs) of a non-empty list
RECURSIVE MathMax(_)
MathMax(xs) == IF Len(xs) = 1 THEN xs[1] ELSE Max(xs[1], MathMax(Tail(xs)))

\* lastEndTime, the value onSubmit passes to setCurrentTime
PageCurrentTime(list) == MathMax([k \in 1..Len(list) |-> list[k].endTime])

\* the block pushed for a result; a process is shown by its id
ProcessBlock(result) ==
  [name |-> ToString(result.process.id), start |-> result.startTime,
   duration |-> result.endTime - result.startTime, isIdle |-> FALSE]

\* the block pushed for the gap before a result
IdleBlock(time, result) ==
  [name |-> "Idle", start |-> time, duration |-> result.startTime - time,
   isIdle |-> TRUE]

\* the body of results.forEach: time is the endTime of the previous result
RECURSIVE GanttFrom(_, _, _)
GanttFrom(list, time, blocks) ==
  IF list = <<>> THEN blocks
  ELSE LET result == Head(list)
           gap == IF result.startTime > time
                    THEN <<IdleBlock(time, result)>>
                    ELSE <<>>
       IN GanttFrom(Tail(list), result.endTime,
                    blocks \o gap \o <<ProcessBlock(result)>>)

\* as GanttData, without the idle blocks
GanttDataWithoutIdle(list) == [k \in 1..Len(list) |-> ProcessBlock(list[k])]

\* ganttData of the page whose state results is the given list
GanttData(list) == GanttFrom(list, 0, <<>>)

(* ---- the five functions as functions of their arguments ---- *)
\* the forEach of fcfs, lines 65-81, from the given clock and results on
RECURSIVE FcfsFrom(_, _, _)
FcfsFrom(list, time, res) ==
  IF list = <<>> THEN res
  ELSE LET process == list[1]
           startTime == Max(time, process.arrivalTime)
           endTime == startTime + process.burstTime
       IN FcfsFrom(Tail(list), endTime,
                   Append(res, ProcessResult(process, startTime, endTime)))

\* fcfs(list), lines 60-84
Fcfs(list) == FcfsFrom(SortByArrival(list), 0, <<>>)

\* the while loop of sjf, lines 133-158, from the given clock and results on
RECURSIVE SjfFrom(_, _, _)
SjfFrom(list, time, res) ==
  IF list = <<>> THEN res
  ELSE LET available == Available(list, time)
       IN IF Len(available) = 0
          THEN SjfFrom(list, MinOf(ArrivalTimes(list)), res)
          ELSE LET next == ShortestJob(available)
                   startTime == time
                   endTime == startTime + next.burstTime
               IN SjfFrom(RemoveId(list, next.id), endTime,
                          Append(res, ProcessResult(next, startTime, endTime)))

\* sjf(list), lines 128-161
Sjf(list) == SjfFrom(list, 0, <<>>)

\* priority(list), lines 121-126
Priority(list) == Fcfs(SortByPriority(list))

\* the while loop of roundRobin, lines 92-116, from the given queue, map,
\* clock and results on
RECURSIVE RoundRobinFrom(_, _, _, _, _)
RoundRobinFrom(list, rt, q, time, res) ==
  IF list = <<>> THEN res
  ELSE LET process == Head(list)
           rem == rt[process.id]
           executeTime == ExecuteTime(q, rem)
           startTime == time
           endTime == startTime + executeTime
       IN IF rem > 0
          THEN RoundRobinFrom(IF rem - executeTime > 0
                              THEN Append(Tail(list), process)
                              ELSE Tail(list),
                              [rt EXCEPT ![process.id] = rem - executeTime],
                              q, endTime,
                              Append(res, ProcessResult(process, startTime, endTime)))
          ELSE RoundRobinFrom(Tail(list), rt, q, time, res)

\* roundRobin(list, q), lines 86-119
RoundRobin(list, q) ==
  RoundRobinFrom(SortByArrival(list), BurstMap(SortByArrival(list)), q, 0, <<>>)

\* the while loop of srtf, lines 169-201, from the given list, map, clock
\* and results on
RECURSIVE SrtfFrom(_, _, _, _)
SrtfFrom(list, rt, time, res) ==
  IF list = <<>> THEN res
  ELSE LET available == Available(list, time)
       IN IF Len(available) = 0
          THEN SrtfFrom(list, rt, MinOf(ArrivalTimes(list)), res)
          ELSE LET next == ShortestRemaining(available, rt)
                   startTime == time
                   executeTime == 1
                   endTime == startTime + executeTime
                   remaining_time == rt[next.id] - executeTime
               IN SrtfFrom(IF remaining_time = 0 THEN RemoveId(list, next.id) ELSE list,
                           [rt EXCEPT ![next.id] = remaining_time], endTime,
                           Append(res, ProcessResult(next, startTime, endTime)))

\* srtf(list), lines 163-204
Srtf(list) == SrtfFrom(list, BurstMap(list), 0, <<>>)

\* the list the given function returns when it is called on its own
RunAlone(alg, list, q) ==
  CASE alg = "FCFS" -> Fcfs(list)
    [] alg = "RR" -> RoundRobin(list, q)
    [] alg = "Priority" -> Priority(list)
    [] alg = "SJF" -> Sjf(list)
    [] alg = "SRTF" -> Srtf(list)

(* ---- the statistics of the Scheduler page, Scheduler.tsx lines 122-131 ---- *)
\* an array's reduce((sum, x) => sum + x, 0)
RECURSIVE ReduceSum(_)
ReduceSum(xs) == IF xs = <<>> THEN 0 ELSE xs[1] + ReduceSum(Tail(xs))

\* simulationResults.reduce((sum, result) => sum + result.waitingTime, 0)
TotalWaiting == ReduceSum([k \in 1..Len(results) |-> results[k].waitingTime])

\* simulationResults.reduce((sum, result) => sum + result.turnaroundTime, 0)
TotalTurnaround == ReduceSum([k \in 1..Len(results) |-> results[k].turnaroundTime])

\* the quotients passed to setAverageStats, as numerator and denominator
AverageStats ==
  [avgWaiting |-> [num |-> TotalWaiting, den |-> Len(processes)],
   avgTurnaround |-> [num |-> TotalTurnaround, den |-> Len(processes)]]

(***************************************************************************)
(* Properties                                                              *)
(***************************************************************************)
\* the valid inputs of the properties: arrivalTime >= 0 and burstTime >= 1
\* for every process, distinct ids, and quantum >= 1 when roundRobin is called
ValidInput ==
  /\ \A i \in 1..Len(processes) :
       /\ processes[i].arrivalTime >= 0
       /\ processes[i].burstTime >= 1
       /\ \A j \in 1..Len(processes) : processes[j].id = processes[i].id => j = i
  /\ algorithm = "RR" => quantum >= 1

\* sum of the numbers of a list
RECURSIVE SumSeq(_)
SumSeq(xs) == IF xs = <<>> THEN 0 ELSE xs[1] + SumSeq(Tail(xs))

\* the results that belong to the process with the given id
SlicesOf(id) ==
  LET Mine(r) == r.process.id = id IN SelectSeq(results, Mine)

Durations(list) == [k \in 1..Len(list) |-> list[k].endTime - list[k].startTime]

\* position of a process in the caller's list
InputPosition(p) == CHOOSE i \in 1..Len(processes) : processes[i] = p

\* C1: Conservation. On valid input, when the call has returned, the slice
\* durations of every input process add up to its burstTime and every process
\* has at least one result.
Conservation ==
  (pc = "done" /\ ValidInput) =>
    \A i \in 1..Len(processes) :
      /\ SumSeq(Durations(SlicesOf(processes[i].id))) = processes[i].burstTime
      /\ Len(SlicesOf(processes[i].id)) >= 1

\* a preemptive run has returned after cutting some process into several slices
ConservationWitness ==
  /\ pc = "done"
  /\ algorithm \in {"RR", "SRTF"}
  /\ Len(processes) >= 2
  /\ \E i \in 1..Len(processes) : Len(SlicesOf(processes[i].id)) >= 2

\* C2: No double-booking, chronological output. On valid input every result
\* ends no later than the next result of the list starts.
NoDoubleBooking ==
  ValidInput =>
    \A k \in 1..(Len(results) - 1) : results[k].endTime <= results[k + 1].startTime

\* a run has emitted several results, one of them after an idle gap
NoDoubleBookingWitness ==
  /\ pc = "done"
  /\ Len(results) >= 3
  /\ \E k \in 1..(Len(results) - 1) : results[k].endTime < results[k + 1].startTime

\* C3: No early start. On valid input every emitted slice starts at or after
\* the arrivalTime of its process (waitingTime >= 0).
NoEarlyStart ==
  ValidInput =>
    \A k \in 1..Len(results) :
      /\ results[k].startTime >= results[k].process.arrivalTime
      /\ results[k].waitingTime >= 0

\* C4: Invalid input rejection. On invalid input no simulation step is taken,
\* no result is produced and the call does not return a result list.
InvalidInputRejected ==
  ~ValidInput => (iterations = 0 /\ results = <<>> /\ pc # "done")

\* total remaining burst time of roundRobin and srtf
TotalRemaining ==
  SumSeq([k \in 1..Len(processes) |->
            IF processes[k].id \in DOMAIN remainingTime
            THEN remainingTime[processes[k].id] ELSE 0])

\* an iteration of sjf or srtf that only moved the clock
IdleJump ==
  /\ pc = "loop"
  /\ algorithm \in {"SJF", "SRTF"}
  /\ iterations' = iterations + 1
  /\ results' = results

\* C5: Termination. On valid input every call eventually returns; in
\* roundRobin and srtf every emitted slice strictly decreases the total
\* remaining burst time; in sjf and srtf an idle clock jump leaves the loop
\* running with an arrived process, so the next iteration executes.
Termination ==
  /\ (pc = "call" /\ ValidInput) ~> (pc = "done")
  /\ [][(algorithm \in {"RR", "SRTF"} /\ Len(results') > Len(results))
           => TotalRemaining' < TotalRemaining]_vars
  /\ [][IdleJump => (LoopCondition' /\ Len(Available(remaining', currentTime')) > 0)]_vars

\* srtf has returned after at least one idle jump and several slices
TerminationWitness ==
  /\ pc = "done"
  /\ algorithm = "SRTF"
  /\ iterations > Len(results)
  /\ Len(results) >= 3

\* C7: Empty input. With an empty process list no loop iteration runs, the
\* loop condition is false on entry, and the result list stays empty.
EmptyInput ==
  (pc \in {"call", "loop", "done"} /\ Len(processes) = 0) =>
    /\ results = <<>>
    /\ iterations = 0
    /\ pc = "loop" => ~LoopCondition

\* sjf has returned on the empty list
EmptyInputWitness ==
  /\ Len(processes) = 0
  /\ pc = "done"
  /\ algorithm = "SJF"
  /\ results = <<>>

\* the example of the FCFS ordering property
FcfsExample ==
  << [id |-> 1, arrivalTime |-> 2, burstTime |-> 3, priority |-> 0],
     [id |-> 2, arrivalTime |-> 0, burstTime |-> 2, priority |-> 0] >>

\* C8: FCFS order and timing. fcfs emits one result per process, in ascending
\* arrivalTime order with ties in input order; each result starts at the
\* later of the previous endTime (or 0) and its arrivalTime and lasts
\* burstTime.
FcfsOrderAndTiming ==
  (algorithm = "FCFS" /\ pc = "done") =>
    /\ Len(results) = Len(processes)
    /\ \A i \in 1..Len(processes) : Len(SlicesOf(processes[i].id)) = 1
    /\ \A k \in 1..Len(results) : \A l \in (k + 1)..Len(results) :
         LET p == results[k].process
             q == results[l].process
         IN /\ p.arrivalTime <= q.arrivalTime
            /\ p.arrivalTime = q.arrivalTime => InputPosition(p) < InputPosition(q)
    /\ \A k \in 1..Len(results) :
         LET before == IF k = 1 THEN 0 ELSE results[k - 1].endTime
             arrival == results[k].process.arrivalTime
         IN /\ results[k].startTime = IF before >= arrival THEN before ELSE arrival
            /\ results[k].endTime = results[k].startTime + results[k].process.burstTime
    /\ processes = FcfsExample =>
         results = << [process |-> FcfsExample[2], startTime |-> 0, endTime |-> 2,
                       waitingTime |-> 0, turnaroundTime |-> 2],
                      [process |-> FcfsExample[1], startTime |-> 2, endTime |-> 5,
                       waitingTime |-> 0, turnaroundTime |-> 3] >>

\* fcfs has returned on the example list
FcfsOrderAndTimingWitness ==
  /\ algorithm = "FCFS"
  /\ pc = "done"
  /\ processes = FcfsExample
  /\ Len(results) = 2

\* C9: Priority selection order. In the output of priority a process with a
\* lower priority value precedes, and starts before, every process with a
\* higher priority value.
PrioritySelectionOrder ==
  (algorithm = "Priority" /\ pc = "done") =>
    \A k \in 1..Len(results) : \A l \in 1..Len(results) :
      results[k].process.priority < results[l].process.priority
        => (k < l /\ results[k].startTime < results[l].startTime)

\* an iteration of sjf that starts a process
SjfExecutes ==
  /\ pc = "loop"
  /\ algorithm = "SJF"
  /\ Len(results') = Len(results) + 1

\* C10: SJF selection. Whenever sjf starts a process, it is one with the
\* smallest burstTime among the unfinished processes that have arrived, the
\* earliest of the input list among those; it runs for its full burstTime
\* and is removed from the remaining list.
SjfSelection ==
  [][SjfExecutes =>
       LET r == results'[Len(results')]
           next == r.process
           arrived == {i \in 1..Len(remaining) : remaining[i].arrivalTime <= currentTime}
       IN /\ \E i \in arrived : remaining[i] = next
          /\ \A i \in arrived :
               /\ next.burstTime <= remaining[i].burstTime
               /\ next.burstTime = remaining[i].burstTime
                    => InputPosition(next) <= InputPosition(remaining[i])
          /\ r.startTime = currentTime
          /\ r.endTime = r.startTime + next.burstTime
          /\ currentTime' = r.endTime
          /\ \A i \in 1..Len(remaining') : remaining'[i] # next
          /\ Len(remaining') = Len(remaining) - 1]_vars

\* sjf has started a process that tied on burstTime with another arrived one
SjfSelectionWitness ==
  /\ algorithm = "SJF"
  /\ Len(results) >= 1
  /\ \E i \in 1..Len(processes) :
       /\ processes[i] # results[1].process
       /\ processes[i].burstTime = results[1].process.burstTime
       /\ processes[i].arrivalTime <= results[1].startTime

\* an iteration of srtf that emits a slice
SrtfExecutes ==
  /\ pc = "loop"
  /\ algorithm = "SRTF"
  /\ Len(results') = Len(results) + 1

\* C11: SRTF selection. Every slice srtf emits at clock t goes to an
\* unfinished process that has arrived by t and has the smallest remaining
\* time among those, the earliest of the input list when several share it.
SrtfSelection ==
  [][SrtfExecutes =>
       LET r == results'[Len(results')]
           next == r.process
           arrived == {i \in 1..Len(remaining) : remaining[i].arrivalTime <= currentTime}
       IN /\ r.startTime = currentTime
          /\ \E i \in arrived : remaining[i] = next
          /\ remainingTime[next.id] > 0
          /\ \A i \in arrived :
               /\ remainingTime[next.id] <= remainingTime[remaining[i].id]
               /\ remainingTime[next.id] = remainingTime[remaining[i].id]
                    => InputPosition(next) <= InputPosition(remaining[i])]_vars

\* srtf has emitted a slice at a clock where the selected process tied on
\* remaining time with another arrived, unfinished process: the two have the
\* same burstTime and have both arrived before the first slice
SrtfSelectionWitness ==
  /\ algorithm = "SRTF"
  /\ Len(processes) = 2
  /\ Len(results) >= 1
  /\ processes[1].burstTime = processes[2].burstTime
  /\ processes[1].arrivalTime <= results[1].startTime
  /\ processes[2].arrivalTime <= results[1].startTime

\* number of time units the process of results[k] still needs after slice k
RemainingAfter(k) ==
  LET Mine(j) == results[j].process.id = results[k].process.id
  IN results[k].process.burstTime
       - SumSeq([j \in 1..k |-> IF Mine(j) THEN results[j].endTime - results[j].startTime
                                ELSE 0])

\* slice k of srtf ended at the arrival time of a process whose burstTime is
\* smaller than what the process of slice k still needs
PreemptedAfter(k) ==
  \E i \in 1..Len(processes) :
    /\ processes[i].arrivalTime = results[k].endTime
    /\ processes[i].burstTime < RemainingAfter(k)

\* the example of the SRTF preemption property
SrtfExample ==
  << [id |-> 1, arrivalTime |-> 0, burstTime |-> 4, priority |-> 0],
     [id |-> 2, arrivalTime |-> 1, burstTime |-> 1, priority |-> 0] >>

\* C12: SRTF preemption. When a process arrives at t with a burstTime smaller
\* than the remaining time of the process that ran in [t-1, t), the slice
\* [t, t+1) goes to another process and the preempted one resumes later.
SrtfPreemption ==
  (algorithm = "SRTF" /\ ValidInput) =>
    /\ \A k \in 1..(Len(results) - 1) :
         PreemptedAfter(k) =>
           /\ results[k + 1].process # results[k].process
           /\ results[k + 1].startTime = results[k].endTime
           /\ results[k + 1].endTime = results[k].endTime + 1
           /\ pc = "done" =>
                \E l \in (k + 2)..Len(results) : results[l].process = results[k].process
    /\ (processes = SrtfExample /\ pc = "done") =>
         /\ [k \in 1..Len(results) |->
               <<results[k].process.id, results[k].startTime, results[k].endTime>>]
              = << <<1, 0, 1>>, <<2, 1, 2>>, <<1, 2, 3>>, <<1, 3, 4>>, <<1, 4, 5>> >>
         /\ results[2].turnaroundTime = 1
         /\ results[5].turnaroundTime = 5

\* srtf has returned on the example list, where process 2 preempts process 1
SrtfPreemptionWitness ==
  /\ algorithm = "SRTF"
  /\ pc = "done"
  /\ processes = SrtfExample
  /\ PreemptedAfter(1)

\* C13: SRTF granularity. Every result of srtf lasts exactly one time unit,
\* also when the same process runs in consecutive units, and on valid input
\* srtf returns as many results as the burstTimes add up to.
SrtfGranularity ==
  algorithm = "SRTF" =>
    /\ \A k \in 1..Len(results) : results[k].endTime = results[k].startTime + 1
    /\ (pc = "done" /\ ValidInput) =>
         Len(results) = SumSeq([i \in 1..Len(processes) |-> processes[i].burstTime])

\* srtf has returned two adjacent unit slices of the same process
SrtfGranularityWitness ==
  /\ algorithm = "SRTF"
  /\ pc = "done"
  /\ \E k \in 1..(Len(results) - 1) :
       /\ results[k].process = results[k + 1].process
       /\ results[k].endTime = results[k + 1].startTime

\* the example of the Round Robin slicing property, run with quantum 2
RoundRobinExample ==
  << [id |-> 1, arrivalTime |-> 0, burstTime |-> 5, priority |-> 0] >>

\* C14: Round Robin slicing. Every slice of roundRobin lasts the smaller of
\* quantum and the remaining time its process had before the slice; every
\* slice of a process but its last lasts quantum, and a process of burstTime
\* b gets ceil(b / quantum) slices.
RoundRobinSlicing ==
  (algorithm = "RR" /\ ValidInput) =>
    /\ \A k \in 1..Len(results) :
         LET duration == results[k].endTime - results[k].startTime
             before == RemainingAfter(k) + duration
         IN /\ duration = IF quantum <= before THEN quantum ELSE before
            /\ (\E l \in (k + 1)..Len(results) : results[l].process = results[k].process)
                 => duration = quantum
    /\ pc = "done" =>
         \A i \in 1..Len(processes) :
           Len(SlicesOf(processes[i].id))
             = (processes[i].burstTime + quantum - 1) \div quantum
    /\ (processes = RoundRobinExample /\ quantum = 2 /\ pc = "done") =>
         [k \in 1..Len(results) |-> <<results[k].startTime, results[k].endTime>>]
           = << <<0, 2>>, <<2, 4>>, <<4, 5>> >>

\* roundRobin has returned on the example list with quantum 2
RoundRobinSlicingWitness ==
  /\ algorithm = "RR"
  /\ pc = "done"
  /\ processes = RoundRobinExample
  /\ quantum = 2
  /\ Len(results) = 3

\* C15: Non-preemptive algorithms emit one slice per process. On valid input
\* fcfs, priority and sjf never emit a second result for a process, every
\* result lasts the burstTime of its process, and the returned list has one
\* entry for every input process.
OneSlicePerProcess ==
  (algorithm \in {"FCFS", "Priority", "SJF"} /\ ValidInput) =>
    /\ \A i \in 1..Len(processes) : Len(SlicesOf(processes[i].id)) <= 1
    /\ \A k \in 1..Len(results) :
         results[k].endTime - results[k].startTime = results[k].process.burstTime
    /\ pc = "done" =>
         /\ Len(results) = Len(processes)
         /\ \A i \in 1..Len(processes) : Len(SlicesOf(processes[i].id)) = 1

\* sjf has returned after a shorter process arrived while a longer one was
\* running; priority's analogue is a more urgent arrival
OneSlicePerProcessWitness ==
  /\ algorithm = "SJF"
  /\ pc = "done"
  /\ Len(results) = 2
  /\ results[2].process.burstTime < results[1].process.burstTime
  /\ results[2].process.arrivalTime > results[1].startTime
  /\ results[2].process.arrivalTime < results[1].endTime

\* the processes that still need time before slice k is emitted
UnfinishedBefore(k) ==
  { i \in 1..Len(processes) :
      SumSeq([j \in 1..(k - 1) |->
                IF results[j].process.id = processes[i].id
                THEN results[j].endTime - results[j].startTime ELSE 0])
        < processes[i].burstTime }

\* the example of the SJF idle handling property
SjfIdleExample ==
  << [id |-> 1, arrivalTime |-> 5, burstTime |-> 2, priority |-> 0] >>

\* C16: Idle gaps only when nothing is ready. On valid input, a result that
\* starts later than the previous result ended (or than 0) starts at the
\* smallest arrivalTime of the processes unfinished at that point, none of
\* which had arrived before.
WorkConservation ==
  ValidInput =>
    /\ \A k \in 1..Len(results) :
         LET c == IF k = 1 THEN 0 ELSE results[k - 1].endTime
             s == results[k].startTime
         IN s > c =>
              /\ \A i \in UnfinishedBefore(k) : processes[i].arrivalTime >= s
              /\ \E i \in UnfinishedBefore(k) : processes[i].arrivalTime = s
    /\ (algorithm = "SJF" /\ processes = SjfIdleExample /\ Len(results) >= 1) =>
         results[1].startTime = 5

\* sjf has returned on the example list, after idling from 0 to 5
WorkConservationWitness ==
  /\ algorithm = "SJF"
  /\ pc = "done"
  /\ processes = SjfIdleExample
  /\ Len(results) = 1
  /\ results[1].startTime > 0

\* an iteration of sjf or srtf that starts or resumes a process
SelectionStep == SjfExecutes \/ SrtfExecutes

\* the value sjf and srtf minimise: burstTime, or the remaining time
SelectionKey(p) ==
  IF algorithm = "SJF" THEN p.burstTime ELSE remainingTime[p.id]

\* the arrived, unfinished processes that share the key of process next
TiedWith(next) ==
  { i \in 1..Len(remaining) :
      /\ remaining[i].arrivalTime <= currentTime
      /\ SelectionKey(remaining[i]) = SelectionKey(next) }

\* the caller's list is in ascending arrivalTime order
InputInArrivalOrder ==
  \A i \in 1..Len(processes) : \A j \in (i + 1)..Len(processes) :
    processes[i].arrivalTime <= processes[j].arrivalTime

\* C17 as stated: Tie-break by arrival order. When several available
\* processes share the smallest burstTime (sjf) or remaining time (srtf), the
\* selected one has the earliest arrivalTime among them, whatever the order
\* of the input list.
TieBreakByArrival ==
  [][SelectionStep =>
       LET next == results'[Len(results')].process
       IN \A i \in TiedWith(next) : next.arrivalTime <= remaining[i].arrivalTime]_vars

\* C17 as amended: among the available processes that share the smallest
\* burstTime (sjf) or remaining time (srtf) the selected one is the earliest
\* of the input list; it has the earliest arrivalTime among them when the
\* input list is in ascending arrivalTime order.
TieBreakByInputOrder ==
  [][SelectionStep =>
       LET next == results'[Len(results')].process
       IN /\ \A i \in TiedWith(next) : InputPosition(next) <= InputPosition(remaining[i])
          /\ InputInArrivalOrder =>
               \A i \in TiedWith(next) : next.arrivalTime <= remaining[i].arrivalTime]_vars

\* srtf, on a list in arrival order, has resolved a tie on remaining time
\* between two processes of different arrival times at clock 1
TieBreakWitness ==
  /\ algorithm = "SRTF"
  /\ Len(processes) = 2
  /\ processes[1].arrivalTime = 0
  /\ processes[2].arrivalTime = 1
  /\ processes[1].burstTime = processes[2].burstTime + 1
  /\ Len(results) >= 2
  /\ results[2].startTime = 1
  /\ results[2].process = processes[1]

\* C18: Per-slice metrics. Every result has waitingTime = startTime -
\* arrivalTime and turnaroundTime = endTime - arrivalTime of its process; in
\* fcfs, priority and sjf its waitingTime is turnaroundTime - burstTime.
PerSliceMetrics ==
  \A k \in 1..Len(results) :
    /\ results[k].waitingTime = results[k].startTime - results[k].process.arrivalTime
    /\ results[k].turnaroundTime = results[k].endTime - results[k].process.arrivalTime
    /\ algorithm \in {"FCFS", "Priority", "SJF"} =>
         results[k].waitingTime
           = results[k].turnaroundTime - results[k].process.burstTime

\* a result of a process that arrived after 0 and had to wait
PerSliceMetricsWitness ==
  \E k \in 1..Len(results) :
    /\ results[k].process.arrivalTime > 0
    /\ results[k].startTime > results[k].process.arrivalTime

\* endTime of the last result of the process with the given id
LastEndTime(id) == SlicesOf(id)[Len(SlicesOf(id))].endTime

\* sum over the input processes of their turnaround: last endTime - arrivalTime
SumOfTurnarounds ==
  SumSeq([i \in 1..Len(processes) |->
            LastEndTime(processes[i].id) - processes[i].arrivalTime])

\* sum over the input processes of their waiting: turnaround - burstTime
SumOfWaitings ==
  SumSeq([i \in 1..Len(processes) |->
            LastEndTime(processes[i].id) - processes[i].arrivalTime
              - processes[i].burstTime])

\* C19: Derived averages. For a returned run on a valid, non-empty list the
\* averages of the Scheduler page equal the means over the input processes of
\* the per-process waiting and turnaround times.
DerivedAverages ==
  (pc = "done" /\ ValidInput /\ Len(processes) >= 1
     /\ \A i \in 1..Len(processes) : Len(SlicesOf(processes[i].id)) >= 1) =>
    /\ AverageStats.avgWaiting.num * Len(processes)
         = SumOfWaitings * AverageStats.avgWaiting.den
    /\ AverageStats.avgTurnaround.num * Len(processes)
         = SumOfTurnarounds * AverageStats.avgTurnaround.den

\* C20: Preemptive per-process chronology. In roundRobin and srtf the slices
\* of a process appear with strictly increasing startTime and turnaroundTime,
\* the slice that brings its remaining time to 0 is its last one, and in the
\* returned list the last slice of every process is that slice, its
\* turnaroundTime being the completion time minus the arrivalTime.
PreemptiveChronology ==
  (algorithm \in {"RR", "SRTF"} /\ ValidInput) =>
    /\ \A k \in 1..Len(results) : \A l \in (k + 1)..Len(results) :
         results[k].process = results[l].process =>
           /\ results[k].startTime < results[l].startTime
           /\ results[k].turnaroundTime < results[l].turnaroundTime
           /\ RemainingAfter(k) > 0
    /\ pc = "done" =>
         \A i \in 1..Len(processes) :
           \E k \in 1..Len(results) :
             /\ results[k].process = processes[i]
             /\ RemainingAfter(k) = 0
             /\ results[k].endTime = LastEndTime(processes[i].id)
             /\ results[k].turnaroundTime
                  = results[k].endTime - processes[i].arrivalTime

\* a preemptive run has returned with a slice of another process between two
\* slices of the same process
PreemptiveChronologyWitness ==
  /\ algorithm \in {"RR", "SRTF"}
  /\ pc = "done"
  /\ \E k \in 1..Len(results) : \E l \in (k + 2)..Len(results) :
       /\ results[k].process = results[l].process
       /\ results[k + 1].process # results[k].process

\* the processes that still need time in the current state
Unfinished == UnfinishedBefore(Len(results) + 1)

\* C21: Input is left unchanged. From the call to the return no step
\* reorders, extends, shortens or modifies the caller's process list; the
\* lists the algorithms sort and shrink and the remaining-time map are locals,
\* and every result refers to a process of the caller's list.
InputUnchanged ==
  /\ [][(pc \in {"call", "loop"}) => processes' = processes]_vars
  /\ [](pc \in {"loop", "done"} =>
         \A k \in 1..Len(results) :
           \E i \in 1..Len(processes) : results[k].process = processes[i])
  /\ []((pc \in {"loop", "done"} /\ algorithm \in {"RR", "SRTF"}) =>
         DOMAIN remainingTime = {processes[i].id : i \in 1..Len(processes)})

\* fcfs has returned after reordering its sorted copy, and the caller's list
\* is still in its original order
InputUnchangedWitness ==
  /\ pc = "done"
  /\ algorithm = "FCFS"
  /\ Len(processes) = 2
  /\ sorted = <<processes[2], processes[1]>>
  /\ processes[1].id = 1
  /\ processes[1].arrivalTime > processes[2].arrivalTime

\* an iteration that emits a slice
EmitsSlice == pc = "loop" /\ Len(results') = Len(results) + 1

\* C23: Monotonic clock. On valid input the clock is 0 until the loop starts
\* and never decreases; a step that changes it either emits a slice and adds
\* its duration, after (in fcfs and priority) jumping up to the arrivalTime
\* of the slice's process when no unfinished process has arrived, or (in sjf
\* and srtf) emits nothing and jumps up to the smallest arrivalTime of the
\* unfinished processes, none of which has arrived.
MonotonicClock ==
  /\ [](pc \in {"idle", "input", "call"} => currentTime = 0)
  /\ [][currentTime' >= currentTime]_vars
  /\ [][currentTime' # currentTime =>
         \/ /\ EmitsSlice
            /\ LET r == results'[Len(results')]
               IN /\ r.startTime >= currentTime
                  /\ currentTime' = r.endTime
                  /\ r.endTime > r.startTime
                  /\ r.startTime > currentTime =>
                       /\ algorithm \in {"FCFS", "Priority"}
                       /\ r.startTime = r.process.arrivalTime
                       /\ \A i \in Unfinished : processes[i].arrivalTime > currentTime
         \/ /\ results' = results
            /\ algorithm \in {"SJF", "SRTF"}
            /\ currentTime' > currentTime
            /\ \E i \in Unfinished : processes[i].arrivalTime = currentTime'
            /\ \A i \in Unfinished : processes[i].arrivalTime >= currentTime'
            /\ \A i \in Unfinished : processes[i].arrivalTime > currentTime]_vars

\* srtf has jumped over an idle gap after its first slices
MonotonicClockWitness ==
  /\ algorithm = "SRTF"
  /\ pc = "loop"
  /\ Len(results) >= 1
  /\ currentTime > results[Len(results)].endTime

\* number of entries of a list that have the given id
Occurrences(list, id) == Cardinality({k \in 1..Len(list) : list[k].id = id})

\* an iteration of roundRobin's loop
RoundRobinIteration ==
  /\ pc = "loop"
  /\ algorithm = "RR"
  /\ iterations' = iterations + 1

\* C24: Round Robin queue invariant. On valid input, at the top of every
\* iteration of roundRobin a process is in the queue exactly once when its
\* remaining time is positive and not at all when it is 0; so every iteration
\* dequeues a process with positive remaining time and emits a slice, and the
\* branch that drops a process without a slice is never taken.
RoundRobinQueueInvariant ==
  /\ []((algorithm = "RR" /\ pc = "loop" /\ ValidInput) =>
         \A i \in 1..Len(processes) :
           Occurrences(queue, processes[i].id)
             = IF remainingTime[processes[i].id] > 0 THEN 1 ELSE 0)
  /\ [][(RoundRobinIteration /\ ValidInput) =>
         /\ remainingTime[Head(queue).id] > 0
         /\ Len(results') = Len(results) + 1
         /\ results'[Len(results')].process = Head(queue)]_vars

\* roundRobin is at the top of an iteration after one process has finished
\* and another has been put back into the queue
RoundRobinQueueInvariantWitness ==
  /\ algorithm = "RR"
  /\ pc = "loop"
  /\ Len(queue) >= 1
  /\ \E i \in 1..Len(processes) : remainingTime[processes[i].id] = 0
  /\ \E i \in 1..Len(processes) :
       /\ remainingTime[processes[i].id] > 0
       /\ remainingTime[processes[i].id] < processes[i].burstTime

\* C25: Remaining-time bounds. In roundRobin and srtf on valid input the
\* remaining time of every process is within 0..burstTime; it changes only in
\* a step that emits a slice of that process, by the slice's duration; a
\* process whose remaining time is 0 is neither in the queue nor in the
\* remaining list, and every emitted slice goes to a process whose remaining
\* time was positive.
RemainingTimeBounds ==
  /\ []((algorithm \in {"RR", "SRTF"} /\ pc \in {"loop", "done"} /\ ValidInput) =>
         \A i \in 1..Len(processes) :
           /\ remainingTime[processes[i].id] \in 0..processes[i].burstTime
           /\ remainingTime[processes[i].id] = 0 =>
                /\ Occurrences(queue, processes[i].id) = 0
                /\ Occurrences(remaining, processes[i].id) = 0)
  /\ [][(algorithm \in {"RR", "SRTF"} /\ pc = "loop" /\ ValidInput) =>
         \A i \in 1..Len(processes) :
           remainingTime'[processes[i].id] # remainingTime[processes[i].id] =>
             /\ EmitsSlice
             /\ LET r == results'[Len(results')]
                IN /\ r.process = processes[i]
                   /\ remainingTime'[processes[i].id]
                        = remainingTime[processes[i].id] - (r.endTime - r.startTime)]_vars
  /\ [][(algorithm \in {"RR", "SRTF"} /\ EmitsSlice /\ ValidInput) =>
         remainingTime[results'[Len(results')].process.id] > 0]_vars

\* srtf is in its loop after one process has finished and been removed while
\* another has run for part of its burstTime
RemainingTimeBoundsWitness ==
  /\ algorithm = "SRTF"
  /\ pc = "loop"
  /\ \E i \in 1..Len(processes) :
       /\ remainingTime[processes[i].id] = 0
       /\ Occurrences(remaining, processes[i].id) = 0
  /\ \E i \in 1..Len(processes) :
       /\ remainingTime[processes[i].id] > 0
       /\ remainingTime[processes[i].id] < processes[i].burstTime

\* the list is in ascending arrivalTime order, ties in the order of the
\* caller's list
InStableArrivalOrder(list) ==
  \A k \in 1..Len(list) : \A l \in (k + 1)..Len(list) :
    /\ list[k].arrivalTime <= list[l].arrivalTime
    /\ list[k].arrivalTime = list[l].arrivalTime
         => InputPosition(list[k]) < InputPosition(list[l])

\* the list with every arrivalTime set to 0
ArrivalsZeroed(list) == [k \in 1..Len(list) |-> [list[k] EXCEPT !.arrivalTime = 0]]

\* id, startTime and endTime of every entry of a result list
SliceTimes(list) ==
  [k \in 1..Len(list) |-> <<list[k].process.id, list[k].startTime, list[k].endTime>>]

\* C26: Round Robin ignores arrival times while running. The first slice of
\* roundRobin starts at 0, every later slice starts at the endTime of the
\* slice before it, and the last slice of the returned list ends at the sum
\* of all burstTimes, whatever the arrivalTimes are; the arrivalTimes decide
\* the initial queue: every process once, in ascending arrivalTime order,
\* ties in input order; and nothing else: the slices are those of roundRobin
\* on the list in that order with every arrivalTime set to 0.
RoundRobinIgnoresArrival ==
  /\ []((algorithm = "RR" /\ ValidInput) =>
         /\ Len(results) >= 1 => results[1].startTime = 0
         /\ \A k \in 1..(Len(results) - 1) :
              results[k + 1].startTime = results[k].endTime
         /\ (pc = "done" /\ Len(results) >= 1) =>
              results[Len(results)].endTime
                = SumSeq([i \in 1..Len(processes) |-> processes[i].burstTime])
         /\ pc = "done" =>
              SliceTimes(results)
                = SliceTimes(RoundRobin(ArrivalsZeroed(SortByArrival(processes)),
                                        quantum)))
  /\ [][(algorithm = "RR" /\ pc = "call" /\ ValidInput) =>
         /\ Len(queue') = Len(processes)
         /\ \A i \in 1..Len(processes) : Occurrences(queue', processes[i].id) = 1
         /\ InStableArrivalOrder(queue')]_vars

\* roundRobin has returned a list whose first slice starts at 0, before the
\* arrivalTime of its process, the other process having arrived later still
RoundRobinIgnoresArrivalWitness ==
  /\ algorithm = "RR"
  /\ pc = "done"
  /\ Len(processes) = 2
  /\ results[1].process.arrivalTime > 0
  /\ results[1].startTime = 0
  /\ results[2].process.arrivalTime > results[2].startTime

\* position in results of the first slice of the process with the given id
FirstSlice(id) ==
  CHOOSE k \in 1..Len(results) :
    /\ results[k].process.id = id
    /\ \A j \in 1..(k - 1) : results[j].process.id # id

\* number of slices of the process with the given id strictly between the
\* positions k and l of results
SlicesBetween(id, k, l) ==
  Cardinality({j \in (k + 1)..(l - 1) : results[j].process.id = id})

\* C27: Round Robin rotation fairness. In the output of roundRobin on valid
\* input, between two consecutive slices of a process every other process
\* that was unfinished when the first of the two was emitted has exactly one
\* slice and the finished ones have none; the first slices of the processes
\* appear in ascending arrivalTime order, ties in input order.
RoundRobinRotation ==
  (algorithm = "RR" /\ ValidInput) =>
    /\ \A k \in 1..Len(results) : \A l \in (k + 1)..Len(results) :
         (/\ results[k].process = results[l].process
          /\ SlicesBetween(results[k].process.id, k, l) = 0) =>
           \A i \in 1..Len(processes) :
             processes[i] # results[k].process =>
               SlicesBetween(processes[i].id, k, l)
                 = IF i \in UnfinishedBefore(k) THEN 1 ELSE 0
    /\ \A i \in 1..Len(processes) : \A j \in 1..Len(processes) :
         (/\ i # j
          /\ Len(SlicesOf(processes[j].id)) >= 1
          /\ \/ processes[i].arrivalTime < processes[j].arrivalTime
             \/ processes[i].arrivalTime = processes[j].arrivalTime /\ i < j) =>
           /\ Len(SlicesOf(processes[i].id)) >= 1
           /\ FirstSlice(processes[i].id) < FirstSlice(processes[j].id)

\* roundRobin has given a slice to the other process between two slices of
\* the process that arrived first, which is second in the caller's list
RoundRobinRotationWitness ==
  /\ algorithm = "RR"
  /\ Len(processes) = 2
  /\ Len(results) >= 3
  /\ results[1].process = processes[2]
  /\ results[2].process = processes[1]
  /\ results[3].process = processes[2]

\* the arrivalTimes of the caller's list are pairwise distinct
DistinctArrivals ==
  \A i \in 1..Len(processes) : \A j \in 1..Len(processes) :
    processes[i].arrivalTime = processes[j].arrivalTime => i = j

\* process, startTime and endTime of every entry of a result list
Times(list) ==
  [k \in 1..Len(list) |-> <<list[k].process, list[k].startTime, list[k].endTime>>]

\* the set of entries of a list
Range(list) == {list[k] : k \in 1..Len(list)}

MaxEndTime(list) ==
  IF list = <<>> THEN 0
  ELSE CHOOSE e \in {list[k].endTime : k \in 1..Len(list)} :
         \A k \in 1..Len(list) : list[k].endTime <= e

\* the time units [t, t+1) covered by the entries of a result list
BusyUnits(list) ==
  UNION {list[k].startTime..(list[k].endTime - 1) : k \in 1..Len(list)}

\* the time units before the largest endTime that no entry covers
IdleUnits(list) == (0..(MaxEndTime(list) - 1)) \ BusyUnits(list)

\* C29: Equal makespan of the work-conserving algorithms. For every valid
\* input the lists returned by fcfs, priority, sjf and srtf have the largest
\* endTime and the idle time units of fcfs(processes), hence the same ones,
\* whichever processes they give the busy units to.
EqualMakespan ==
  (algorithm \in {"FCFS", "Priority", "SJF", "SRTF"} /\ pc = "done" /\ ValidInput) =>
    /\ MaxEndTime(results) = MaxEndTime(Fcfs(processes))
    /\ IdleUnits(results) = IdleUnits(Fcfs(processes))

\* sjf has returned, after an idle gap, a list that starts with another
\* process than the list of fcfs
EqualMakespanWitness ==
  /\ algorithm = "SJF"
  /\ pc = "done"
  /\ Len(results) = 2
  /\ IdleUnits(results) # {}
  /\ results[1].process # Fcfs(processes)[1].process

\* every process of the caller's list has the same arrivalTime
SameArrival ==
  \A i \in 1..Len(processes) : \A j \in 1..Len(processes) :
    processes[i].arrivalTime = processes[j].arrivalTime

\* result k does not continue the result before it: another process, or a gap
RunStart(k) ==
  \/ k = 1
  \/ results[k - 1].process # results[k].process
  \/ results[k - 1].endTime # results[k].startTime

RunStarts == {k \in 1..Len(results) : RunStart(k)}

\* endTime of the last result of the run that starts at result k
RunEnd(k) ==
  LET l == CHOOSE l \in k..Len(results) :
             /\ \A j \in (k + 1)..l : ~RunStart(j)
             /\ l = Len(results) \/ RunStart(l + 1)
  IN results[l].endTime

\* results with every run of consecutive slices of a process merged into
\* one entry: process, startTime, endTime
MergedSlices ==
  [n \in 1..Cardinality(RunStarts) |->
     LET k == CHOOSE k \in RunStarts : Cardinality({j \in RunStarts : j < k}) = n - 1
     IN <<results[k].process, results[k].startTime, RunEnd(k)>>]

\* C30: SRTF degenerates to SJF without later arrivals. When every process
\* has the same arrivalTime, srtf gives a slice to another process only after
\* the process of the previous slice has finished, and the returned slices,
\* consecutive slices of a process merged, are the (process, startTime,
\* endTime) list sjf returns on the same list.
SrtfDegeneratesToSjf ==
  (algorithm = "SRTF" /\ ValidInput /\ SameArrival) =>
    /\ \A k \in 1..(Len(results) - 1) :
         results[k + 1].process # results[k].process => RemainingAfter(k) = 0
    /\ pc = "done" => MergedSlices = Times(Sjf(processes))

\* srtf has returned on two processes that arrive together after 0, each
\* longer than one unit, the second of the list being the shorter
SrtfDegeneratesToSjfWitness ==
  /\ algorithm = "SRTF"
  /\ pc = "done"
  /\ Len(processes) = 2
  /\ SameArrival
  /\ processes[1].arrivalTime > 0
  /\ processes[2].burstTime >= 2
  /\ processes[1].burstTime > processes[2].burstTime
  /\ Len(MergedSlices) = 2
  /\ MergedSlices[1][1] = processes[2]

\* the first entries of a list
Prefix(list, n) == [k \in 1..n |-> list[k]]

\* the results of a frame are the first results of the call run alone, all
\* of them once the call has returned
AsRunAlone(frame) ==
  \A alone \in {RunAlone(frame.algorithm, processes, frame.quantum)} :
    /\ Len(frame.results) <= Len(alone)
    /\ frame.results = Prefix(alone, Len(frame.results))
    /\ frame.pc = "done" => frame.results = alone

\* C22: Independent invocations. When a second function is called on the
\* list while a call is in progress and the steps of the two invocations are
\* interleaved in any order, each invocation builds and returns exactly the
\* result list its function returns when called alone: clock, queue,
\* remaining list, remaining-time map and results belong to the invocation.
\* The property is stated of the invocation that is running; Switch makes
\* either of the two the running one in every state.
IndependentInvocations ==
  (ValidInput /\ other.pc # "none" /\ pc \in {"loop", "done"}) => AsRunAlone(Frame)

\* an invocation of roundRobin and an invocation of srtf on the same list are
\* both in their loops, each after emitting a slice
IndependentInvocationsWitness ==
  /\ Len(processes) >= 1
  /\ pc = "loop"
  /\ algorithm = "RR"
  /\ Len(results) >= 1
  /\ other.pc = "loop"
  /\ other.algorithm = "SRTF"
  /\ Len(other.results) >= 1

\* roundRobin has been called with a quantum below 1 on a list with a
\* process of burstTime >= 1
UnguardedQuantum ==
  /\ algorithm = "RR"
  /\ pc \in {"call", "loop", "done"}
  /\ quantum <= 0
  /\ \E i \in 1..Len(processes) : processes[i].burstTime >= 1

\* C31 as stated: roundRobin does not guard its quantum. Called with
\* quantum <= 0 and at least one process of burstTime >= 1 it never returns,
\* and every iteration emits a slice of duration <= 0, leaves the remaining
\* time of its process undiminished and puts the process back into the queue.
UnguardedQuantumEveryIteration ==
  /\ [](UnguardedQuantum => pc # "done")
  /\ [][(UnguardedQuantum /\ RoundRobinIteration) =>
         /\ Len(results') = Len(results) + 1
         /\ results'[Len(results')].endTime <= results'[Len(results')].startTime
         /\ remainingTime'[Head(queue).id] >= remainingTime[Head(queue).id]
         /\ queue'[Len(queue')] = Head(queue)]_vars

\* C31 as amended: called with quantum <= 0 and at least one process of
\* burstTime >= 1, roundRobin never returns: the queue never becomes empty;
\* every iteration that dequeues a process of burstTime >= 1 emits a slice of
\* duration <= 0, leaves its remaining time undiminished and puts it back, so
\* the result list grows with each such iteration; an iteration that
\* dequeues a process of burstTime 0 drops it without a slice.
UnguardedQuantumNeverReturns ==
  /\ [](UnguardedQuantum => pc # "done")
  /\ []((UnguardedQuantum /\ pc = "loop") => LoopCondition)
  /\ [][(UnguardedQuantum /\ RoundRobinIteration) =>
         IF Head(queue).burstTime >= 1
         THEN /\ Len(results') = Len(results) + 1
              /\ results'[Len(results')].process = Head(queue)
              /\ results'[Len(results')].endTime <= results'[Len(results')].startTime
              /\ remainingTime'[Head(queue).id] >= remainingTime[Head(queue).id]
              /\ remainingTime'[Head(queue).id] >= 1
              /\ queue'[Len(queue')] = Head(queue)
         ELSE /\ results' = results
              /\ Occurrences(queue', Head(queue).id) = 0]_vars

\* roundRobin, called with quantum 0 on a process of burstTime 0 and one of
\* burstTime >= 1, is still in its loop at the iteration cut, having emitted
\* a slice in every iteration but one
UnguardedQuantumWitness ==
  /\ UnguardedQuantum
  /\ pc = "loop"
  /\ iterations = MaxSteps
  /\ Len(processes) = 2
  /\ \E i \in 1..Len(processes) : processes[i].burstTime = 0
  /\ Len(results) = MaxSteps - 1
  /\ LoopCondition

\* srtf has been called on a list with a process of burstTime 0
ZeroBurst ==
  /\ algorithm = "SRTF"
  /\ pc \in {"call", "loop", "done"}
  /\ \E i \in 1..Len(processes) : processes[i].burstTime = 0

\* the processes whose remaining time has gone below 0
Overrun == {i \in 1..Len(processes) : remainingTime[processes[i].id] < 0}

\* C32: srtf does not guard burstTime. If some process has burstTime 0,
\* srtf never returns: the slice that first selects such a process takes its
\* remaining time from 0 to -1 and leaves it in the remaining list, since
\* the removal test is remaining === 0; from then on it has arrived and has
\* strictly the smallest remaining time, every later slice goes to it and
\* lowers its remaining time by 1, and the remaining list never empties.
SrtfZeroBurstNeverReturns ==
  /\ [](ZeroBurst => pc # "done")
  /\ []((ZeroBurst /\ pc = "loop") =>
         /\ LoopCondition
         /\ \A i \in Overrun :
              /\ processes[i].burstTime = 0
              /\ Occurrences(remaining, processes[i].id) = 1
              /\ processes[i].arrivalTime <= currentTime
              /\ \A j \in 1..Len(processes) :
                   j # i => remainingTime[processes[j].id] >= 0)
  /\ [][(ZeroBurst /\ SrtfExecutes) =>
         LET next == results'[Len(results')].process
         IN /\ next.burstTime = 0 =>
                 /\ remainingTime[next.id] <= 0
                 /\ remainingTime'[next.id] = remainingTime[next.id] - 1
                 /\ Occurrences(remaining', next.id) = 1
            /\ (next.burstTime = 0 /\ Overrun = {}) => remainingTime'[next.id] = -1
            /\ Overrun # {} => processes[CHOOSE i \in Overrun : TRUE] = next]_vars

\* srtf is still in its loop at the iteration cut: the process of burstTime
\* 0 has been selected several times and the other process, which has
\* arrived, still needs its whole burstTime
SrtfZeroBurstWitness ==
  /\ ZeroBurst
  /\ pc = "loop"
  /\ iterations = MaxSteps
  /\ Len(processes) = 2
  /\ \E i \in Overrun : remainingTime[processes[i].id] < -1
  /\ \E j \in 1..Len(processes) :
       /\ processes[j].burstTime >= 1
       /\ processes[j].arrivalTime <= currentTime
       /\ remainingTime[processes[j].id] = processes[j].burstTime

\* C33: the Scheduler page never runs roundRobin with a quantum below 1: a
\* submission goes through only when the form value quantum is absent or a
\* number >= 1, roundRobin gets the form value when it is present and 2 when
\* it is absent, and so every roundRobin invocation of the page has
\* quantum >= 1
QuantumAtLeastOne ==
  /\ []((algorithm = "RR" /\ pc \in {"call", "loop", "done"}) => quantum >= 1)
  /\ [][(pc = "input" /\ pc' = "call") =>
         /\ \/ formQuantum = Undefined
            \/ formQuantum.type = "number" /\ formQuantum.value >= 1
         /\ algorithm = "RR" =>
              quantum' = (IF formQuantum = Undefined THEN 2
                                                     ELSE formQuantum.value)]_vars

\* roundRobin is running with the quantum 2 it got for an absent form value
QuantumAtLeastOneWitness ==
  /\ algorithm = "RR"
  /\ pc = "loop"
  /\ formQuantum = Undefined
  /\ quantum = 2
  /\ Len(results) >= 1

\* C34: Gantt chart tiling. For the result list the engine returns on valid
\* input, the blocks the Scheduler page builds (process blocks plus inserted
\* "Idle" blocks) are contiguous: the first block starts at 0, every block
\* starts where the previous one ends, every block has duration > 0, and the
\* durations add up to the largest endTime, the currentTime the widths are
\* divided by, so the widths add up to 100%.
GanttTiling ==
  (pc = "done" /\ ValidInput) =>
    \E blocks \in {GanttData(results)} :
      /\ Len(results) >= 1
      /\ blocks[1].start = 0
      /\ \A k \in 2..Len(blocks) :
           blocks[k].start = blocks[k - 1].start + blocks[k - 1].duration
      /\ \A k \in 1..Len(blocks) : blocks[k].duration > 0
      /\ PageCurrentTime(results) > 0
      /\ SumSeq([k \in 1..Len(blocks) |-> blocks[k].duration])
           = PageCurrentTime(results)
      /\ SelectSeq(blocks, LAMBDA b : ~b.isIdle)
           = [k \in 1..Len(results) |-> ProcessBlock(results[k])]

\* a chart with an idle block between the blocks of two processes
GanttTilingWitness ==
  /\ pc = "done"
  /\ ValidInput
  /\ Len(results) >= 2
  /\ \E k \in 2..(Len(GanttData(results)) - 1) : GanttData(results)[k].isIdle

====
